---- MODULE Spec2Model ----
(***************************************************************************)
(* Model of gq-gmc (src/main.go): a Geiger counter bridge.  A producer     *)
(* goroutine reads 2-byte heartbeat frames from a transport, masks them    *)
(* and sends them on the buffered channel `counts`; the main loop selects  *)
(* on a signal channel, the counts channel and a 60 s ticker, accumulates  *)
(* the counts in `cpm` and flushes one sample per tick to InfluxDB.        *)
(***************************************************************************)
EXTENDS Integers, Naturals, Sequences, FiniteSets, TLC

(* ---------------------------- bounds ----------------------------------- *)
\* reads the producer issues on the real transport
MaxReads == 2
\* reads the producer issues on the synthetic transport (fakeSerial)
MaxFakeReads == 6
\* ticks the 60 s ticker delivers
MaxTicks == 2
\* capacity of the counts channel; main.go:65 makes it 128, scaled down here
ChanCap == 2

(* ------------------------ program constants ---------------------------- *)
heartbeatMask == 16383
\* time.Tick and signal.Notify channels both hold one element
TickCap == 1
SigCap == 1
\* 0.00625 as the fraction DoseNum / DoseDen
DoseNum == 625
DoseDen == 100000

DefaultBaud == 57600
DevPaths == {"", "/dev/ttyUSB0"}
Bauds == {0, DefaultBaud}
Signals == {"SIGINT", "SIGTERM"}
\* byte values a read of the real transport delivers in Spec, and the full
\* range of a byte, which it delivers in DecodeSpec
ByteVals == {255}
AllBytes == 0..255
ReadErrs == {"nil", "EOF", "err"}

Enable == "<HEARTBEAT1>>"
Disable == "<HEARTBEAT0>>"

VARIABLES
    sensorDevice,  \* -dev flag
    sensorBaud,    \* -baud flag
    mainPc,        \* position of main
    prodPc,        \* position of the producer goroutine
    transport,     \* "none", "real" or "fake": the value of s
    tlog,          \* writes and the close issued on the transport, in order
    wire,          \* the byte values the real transport may deliver
    sigChan,       \* signals buffered for the main loop
    counts,        \* the buffered channel of EventCounts
    chanClosed,    \* close(counts) has run
    tick,          \* ticks buffered in the ticker channel
    cpm,           \* the accumulator
    buf,           \* the producer's 2-byte buffer after the last read
    lastRead,      \* [n, err] of the producer's last read
    val,           \* the producer's decoded value awaiting the send
    nReads,        \* reads issued so far
    nTicks,        \* ticks delivered so far
    samples,       \* samples submitted to the sink, in order
    sinceFlush,    \* counts consumed since the last flush (history)
    produced,      \* counts sent on the channel (history)
    consumed       \* counts received by the main loop (history)

vars == <<sensorDevice, sensorBaud, wire, mainPc, prodPc, transport, tlog,
          sigChan, counts, chanClosed, tick, cpm, buf, lastRead, val, nReads,
          nTicks, samples, sinceFlush, produced, consumed>>

flagVars == <<sensorDevice, sensorBaud, wire>>
prodVars == <<prodPc, buf, lastRead, val, nReads, produced>>
chanVars == <<counts, chanClosed>>
loopVars == <<cpm, samples, sinceFlush, consumed>>

(* ------------------------- pure functions ------------------------------ *)
RECURSIVE SumSeq(_)
SumSeq(s) == IF s = <<>> THEN 0 ELSE Head(s) + SumSeq(Tail(s))

RECURSIVE BitAnd(_, _)
BitAnd(a, b) ==
    IF a = 0 \/ b = 0 THEN 0
    ELSE ((a % 2) * (b % 2)) + 2 * BitAnd(a \div 2, b \div 2)

RECURSIVE BitOr(_, _)
BitOr(a, b) ==
    IF a = 0 THEN b
    ELSE IF b = 0 THEN a
    ELSE (IF (a % 2) + (b % 2) > 0 THEN 1 ELSE 0) + 2 * BitOr(a \div 2, b \div 2)

\* binary.BigEndian.Uint16: uint16(b[1]) | uint16(b[0])<<8
Uint16(b) == BitOr(b[2], (b[1] * 256) % 65536)

\* val := binary.BigEndian.Uint16(buf[:]); val &= heartbeatMask
DecodeWideMask(b) == BitAnd(Uint16(b), 32767)
Decode(b) == BitAnd(Uint16(b), heartbeatMask)

\* what the producer does with the result (n, err) of a read
ClassifyNoZeroCheck(n, err) ==
    IF err = "EOF" THEN "return"
    ELSE IF err /= "nil" THEN "continue"
    ELSE "send"
ClassifyErrWithData(n, err) ==
    IF err = "EOF" THEN "return"
    ELSE IF n = 0 THEN "continue"
    ELSE "send"
ClassifyFullFrameOnly(n, err) ==
    IF err = "EOF" THEN "return"
    ELSE IF err /= "nil" THEN "continue"
    ELSE IF n < 2 THEN "continue"
    ELSE "send"
Classify(n, err) ==
    IF err = "EOF" THEN "return"
    ELSE IF err /= "nil" THEN "continue"
    ELSE IF n = 0 THEN "continue"
    ELSE "send"

\* doseRate := float64(cpm) * 0.00625, as a multiple of 1/DoseDen
DoseRateWrongFactor(c) == c * 650
DoseRate(c) == c * DoseNum

\* cpm += int(count)
AccumulateDrop(c, count) == c
Accumulate(c, count) == c + count

\* the three results of Read on the transports
RealReads ==
    { [n |-> n, err |-> e,
       buf |-> << IF n >= 1 THEN b0 ELSE 0, IF n >= 2 THEN b1 ELSE 0 >>] :
         n \in 0..2, e \in ReadErrs, b0 \in wire, b1 \in wire }
FakeReadNonZero == { [n |-> 2, err |-> "nil", buf |-> <<128, 1>>] }
FakeRead == { [n |-> 2, err |-> "nil", buf |-> <<128, 0>>] }
ReadResults == IF transport = "fake" THEN FakeRead ELSE RealReads

ReadBound == IF transport = "fake" THEN MaxFakeReads ELSE MaxReads

Running == mainPc \notin {"exited", "fatal"}

(* ------------------------------ Init ----------------------------------- *)
\* the state after flag.Parse and signal.Notify (main.go:21-28)
Init ==
    /\ sensorDevice \in DevPaths
    /\ sensorBaud \in Bauds
    /\ wire = ByteVals
    /\ mainPc = "client"
    /\ prodPc = "idle"
    /\ transport = "none"
    /\ tlog = <<>>
    /\ sigChan = <<>>
    /\ counts = <<>>
    /\ chanClosed = FALSE
    /\ tick = 0
    /\ cpm = 0
    /\ buf = <<0, 0>>
    /\ lastRead = [n |-> 0, err |-> "nil"]
    /\ val = 0
    /\ nReads = 0
    /\ nTicks = 0
    /\ samples = <<>>
    /\ sinceFlush = <<>>
    /\ produced = <<>>
    /\ consumed = <<>>

(* --------------------------- environment ------------------------------- *)
\* the runtime delivers SIGINT or SIGTERM; a full sigChan drops it
DeliverSignal ==
    /\ Running
    /\ \E sig \in Signals :
         sigChan' = IF Len(sigChan) < SigCap THEN Append(sigChan, sig) ELSE sigChan
    /\ UNCHANGED <<flagVars, mainPc, transport, tlog, prodVars, chanVars, tick,
                   nTicks, loopVars>>

\* the ticker of time.Tick fires; a full ticker channel drops the tick
TimerFire ==
    /\ mainPc = "loop"
    /\ nTicks < MaxTicks
    /\ nTicks' = nTicks + 1
    /\ tick' = IF tick < TickCap THEN tick + 1 ELSE tick
    /\ UNCHANGED <<flagVars, mainPc, transport, tlog, sigChan, prodVars,
                   chanVars, loopVars>>

(* ------------------------------ main ----------------------------------- *)
\* main.go:30-35  influxdb.NewHTTPClient, log.Fatalf on error
NewClient ==
    /\ mainPc = "client"
    /\ \E ok \in BOOLEAN : mainPc' = IF ok THEN "open" ELSE "fatal"
    /\ UNCHANGED <<flagVars, transport, tlog, sigChan, prodVars, chanVars, tick,
                   nTicks, loopVars>>

\* main.go:39  the condition that selects the real transport
UseRealDevOnly(d, b) == d /= ""
UseReal(d, b) == d /= "" /\ b > 0

\* main.go:37-51  open the serial port or fall back to fakeSerial
OpenTransport ==
    /\ mainPc = "open"
    /\ IF UseReal(sensorDevice, sensorBaud)
       THEN \E ok \in BOOLEAN :
              /\ mainPc' = IF ok THEN "enable" ELSE "fatal"
              /\ transport' = IF ok THEN "real" ELSE "none"
       ELSE /\ mainPc' = "enable"
            /\ transport' = "fake"
    /\ UNCHANGED <<flagVars, tlog, sigChan, prodVars, chanVars, tick, nTicks,
                   loopVars>>

\* the outcomes of a Write on the transport: fakeSerial.Write never fails
WriteOks == IF transport = "fake" THEN {TRUE} ELSE BOOLEAN

\* main.go:59-63  fmt.Fprintf(port, "<HEARTBEAT1>>"), result ignored
EnableHeartbeatSkipped ==
    /\ mainPc = "enable"
    /\ mainPc' = "spawn"
    /\ UNCHANGED <<flagVars, transport, tlog, sigChan, prodVars, chanVars, tick,
                   nTicks, loopVars>>
EnableHeartbeat ==
    /\ mainPc = "enable"
    /\ \E ok \in WriteOks :
         tlog' = Append(tlog, [op |-> "write", data |-> Enable, ok |-> ok])
    /\ mainPc' = "spawn"
    /\ UNCHANGED <<flagVars, transport, sigChan, prodVars, chanVars, tick,
                   nTicks, loopVars>>

\* main.go:65-91  make the channel, start the goroutine, cpm := 0, time.Tick
StartLoop ==
    /\ mainPc = "spawn"
    /\ mainPc' = "loop"
    /\ prodPc' = "read"
    /\ counts' = <<>>
    /\ chanClosed' = FALSE
    /\ cpm' = 0
    /\ tick' = 0
    /\ UNCHANGED <<flagVars, transport, tlog, sigChan, buf, lastRead, val,
                   nReads, produced, nTicks, samples, sinceFlush, consumed>>

\* main.go:94-96  case sig := <-sigChan: return
HandleSignalSkipDisable ==
    /\ mainPc = "loop"
    /\ sigChan /= <<>>
    /\ sigChan' = Tail(sigChan)
    /\ mainPc' = "deferClose"
    /\ UNCHANGED <<flagVars, transport, tlog, prodVars, chanVars, tick, nTicks,
                   loopVars>>
HandleSignalFinalFlush ==
    /\ mainPc = "loop"
    /\ sigChan /= <<>>
    /\ sigChan' = Tail(sigChan)
    /\ mainPc' = "deferWrite"
    /\ \E ok \in BOOLEAN :
         /\ samples' = Append(samples, [cpm |-> cpm, doseRate |-> cpm * DoseNum,
                                        ok |-> ok, counts |-> sinceFlush,
                                        eos |-> chanClosed])
         /\ cpm' = 0
    /\ sinceFlush' = <<>>
    /\ UNCHANGED <<flagVars, transport, tlog, prodVars, chanVars, tick, nTicks,
                   consumed>>
HandleSignalAfterDrain ==
    /\ mainPc = "loop"
    /\ sigChan /= <<>>
    /\ counts = <<>>
    /\ prodPc = "done"
    /\ sigChan' = Tail(sigChan)
    /\ mainPc' = "deferWrite"
    /\ UNCHANGED <<flagVars, transport, tlog, prodVars, chanVars, tick, nTicks,
                   loopVars>>
HandleSignal ==
    /\ mainPc = "loop"
    /\ sigChan /= <<>>
    /\ sigChan' = Tail(sigChan)
    /\ mainPc' = "deferWrite"
    /\ UNCHANGED <<flagVars, transport, tlog, prodVars, chanVars, tick, nTicks,
                   loopVars>>

\* main.go:97-98  case count := <-counts: cpm += int(count)
\* a closed and drained channel delivers the zero value
RecvCountNewestFirst ==
    /\ mainPc = "loop"
    /\ \/ /\ counts /= <<>>
          /\ cpm' = Accumulate(cpm, counts[Len(counts)])
          /\ counts' = SubSeq(counts, 1, Len(counts) - 1)
          /\ sinceFlush' = Append(sinceFlush, counts[Len(counts)])
          /\ consumed' = Append(consumed, counts[Len(counts)])
       \/ /\ counts = <<>>
          /\ chanClosed
          /\ cpm' = Accumulate(cpm, 0)
          /\ UNCHANGED <<counts, sinceFlush, consumed>>
    /\ UNCHANGED <<flagVars, mainPc, transport, tlog, sigChan, prodVars,
                   chanClosed, tick, nTicks, samples>>
RecvCountExitOnClose ==
    /\ mainPc = "loop"
    /\ \/ /\ counts /= <<>>
          /\ cpm' = Accumulate(cpm, Head(counts))
          /\ counts' = Tail(counts)
          /\ sinceFlush' = Append(sinceFlush, Head(counts))
          /\ consumed' = Append(consumed, Head(counts))
          /\ UNCHANGED mainPc
       \/ /\ counts = <<>>
          /\ chanClosed
          /\ mainPc' = "deferWrite"
          /\ UNCHANGED <<cpm, counts, sinceFlush, consumed>>
    /\ UNCHANGED <<flagVars, transport, tlog, sigChan, prodVars,
                   chanClosed, tick, nTicks, samples>>
RecvCount ==
    /\ mainPc = "loop"
    /\ \/ /\ counts /= <<>>
          /\ cpm' = Accumulate(cpm, Head(counts))
          /\ counts' = Tail(counts)
          /\ sinceFlush' = Append(sinceFlush, Head(counts))
          /\ consumed' = Append(consumed, Head(counts))
       \/ /\ counts = <<>>
          /\ chanClosed
          /\ cpm' = Accumulate(cpm, 0)
          /\ UNCHANGED <<counts, sinceFlush, consumed>>
    /\ UNCHANGED <<flagVars, mainPc, transport, tlog, sigChan, prodVars,
                   chanClosed, tick, nTicks, samples>>

\* cpm = 0 at main.go:106, after a sink write with outcome ok
ResetKeepOnError(c, ok) == IF ok THEN 0 ELSE c
Reset(c, ok) == 0

\* main.go:102, 111-136  sendToInflux: one point per call, whatever cpm is;
\* cs records the counts the sample covers and eos whether the channel was
\* closed at the flush (history)
SubmitSkipZero(s, c, ok, cs) ==
    IF c = 0 THEN s
    ELSE Append(s, [cpm |-> c, doseRate |-> DoseRate(c), ok |-> ok, counts |-> cs,
               eos |-> chanClosed])
Submit(s, c, ok, cs) ==
    Append(s, [cpm |-> c, doseRate |-> DoseRate(c), ok |-> ok, counts |-> cs,
               eos |-> chanClosed])

\* main.go:99-106  case <-timer: one sample to the sink, then cpm = 0
Flush ==
    /\ mainPc = "loop"
    /\ tick > 0
    /\ tick' = tick - 1
    /\ \E ok \in BOOLEAN :
         /\ samples' = Submit(samples, cpm, ok, sinceFlush)
         /\ cpm' = Reset(cpm, ok)
    /\ sinceFlush' = <<>>
    /\ UNCHANGED <<flagVars, mainPc, transport, tlog, sigChan, prodVars,
                   chanVars, nTicks, consumed>>

\* main.go:61-63  deferred fmt.Fprintf(port, "<HEARTBEAT0>>"), result ignored
DeferDisableFatalOnError ==
    /\ mainPc = "deferWrite"
    /\ \E ok \in WriteOks :
         /\ tlog' = Append(tlog, [op |-> "write", data |-> Disable, ok |-> ok])
         /\ mainPc' = IF ok THEN "deferClose" ELSE "fatal"
    /\ UNCHANGED <<flagVars, transport, sigChan, prodVars, chanVars, tick,
                   nTicks, loopVars>>
DeferDisable ==
    /\ mainPc = "deferWrite"
    /\ \E ok \in WriteOks :
         tlog' = Append(tlog, [op |-> "write", data |-> Disable, ok |-> ok])
    /\ mainPc' = "deferClose"
    /\ UNCHANGED <<flagVars, transport, sigChan, prodVars, chanVars, tick,
                   nTicks, loopVars>>

\* main.go:49-51  deferred s.Close(); main has returned, the process exits
DeferClose ==
    /\ mainPc = "deferClose"
    /\ tlog' = Append(tlog, [op |-> "close", data |-> "", ok |-> TRUE])
    /\ mainPc' = "exited"
    /\ UNCHANGED <<flagVars, transport, sigChan, prodVars, chanVars, tick,
                   nTicks, loopVars>>

(* ---------------------------- producer --------------------------------- *)
\* main.go:68-85  one read and its classification; EOF runs close(counts)
Read ==
    /\ Running
    /\ prodPc = "read"
    /\ nReads < ReadBound
    /\ nReads' = nReads + 1
    /\ \E r \in ReadResults :
         /\ lastRead' = [n |-> r.n, err |-> r.err]
         /\ LET next == Classify(r.n, r.err) IN
              /\ buf' = IF next = "send" THEN r.buf ELSE <<0, 0>>
              /\ prodPc' = CASE next = "return" -> "done"
                             [] next = "continue" -> "read"
                             [] OTHER -> "send"
              /\ chanClosed' = (next = "return")
              /\ val' = IF next = "send" THEN Decode(r.buf) ELSE 0
    /\ UNCHANGED <<flagVars, mainPc, transport, tlog, sigChan, counts, tick,
                   nTicks, produced, loopVars>>

\* main.go:86  counts <- val, blocking while the channel is full; the next
\* iteration starts with a fresh zeroed buf (main.go:69)
SendDropWhenFull ==
    /\ Running
    /\ prodPc = "send"
    /\ IF Len(counts) < ChanCap
       THEN /\ counts' = Append(counts, val)
            /\ produced' = Append(produced, val)
       ELSE UNCHANGED <<counts, produced>>
    /\ prodPc' = "read"
    /\ buf' = <<0, 0>>
    /\ val' = 0
    /\ UNCHANGED <<flagVars, mainPc, transport, tlog, sigChan, chanClosed, tick,
                   nTicks, lastRead, nReads, loopVars>>
Send ==
    /\ Running
    /\ prodPc = "send"
    /\ Len(counts) < ChanCap
    /\ counts' = Append(counts, val)
    /\ produced' = Append(produced, val)
    /\ prodPc' = "read"
    /\ buf' = <<0, 0>>
    /\ val' = 0
    /\ UNCHANGED <<flagVars, mainPc, transport, tlog, sigChan, chanClosed, tick,
                   nTicks, lastRead, nReads, loopVars>>

Next ==
    \/ DeliverSignal
    \/ TimerFire
    \/ NewClient
    \/ OpenTransport
    \/ EnableHeartbeat
    \/ StartLoop
    \/ HandleSignal
    \/ RecvCount
    \/ Flush
    \/ DeferDisable
    \/ DeferClose
    \/ Read
    \/ Send

Spec == Init /\ [][Next]_vars

\* Go's select picks uniformly among the ready cases, and the main goroutine
\* keeps running: a step of main that stays enabled is eventually taken
FairSpec ==
    /\ Spec
    /\ WF_vars(EnableHeartbeat)
    /\ WF_vars(StartLoop)
    /\ WF_vars(HandleSignal)
    /\ WF_vars(Flush)
    /\ WF_vars(DeferDisable)
    /\ WF_vars(DeferClose)

\* the producer on the real transport at its last read within the bound,
\* the device free to deliver any bytes: every frame goes through the read,
\* the decoding and the send
DecodeInit ==
    /\ sensorDevice = "/dev/ttyUSB0"
    /\ sensorBaud = DefaultBaud
    /\ wire = AllBytes
    /\ mainPc = "loop"
    /\ prodPc = "read"
    /\ transport = "real"
    /\ tlog = <<[op |-> "write", data |-> Enable, ok |-> TRUE]>>
    /\ sigChan = <<>>
    /\ counts = <<>>
    /\ chanClosed = FALSE
    /\ tick = 0
    /\ cpm = 0
    /\ buf = <<0, 0>>
    /\ lastRead = [n |-> 0, err |-> "nil"]
    /\ val = 0
    /\ nReads = MaxReads - 1
    /\ nTicks = 0
    /\ samples = <<>>
    /\ sinceFlush = <<>>
    /\ produced = <<>>
    /\ consumed = <<>>

DecodeNext ==
    \/ Read
    \/ Send

DecodeSpec == DecodeInit /\ [][DecodeNext]_vars

TypeOK ==
    /\ mainPc \in {"client", "open", "enable", "spawn", "loop", "deferWrite",
                   "deferClose", "exited", "fatal"}
    /\ prodPc \in {"idle", "read", "send", "done"}
    /\ transport \in {"none", "real", "fake"}
    /\ Len(sigChan) <= SigCap
    /\ Len(counts) <= ChanCap
    /\ tick \in 0..TickCap
    /\ cpm \in Nat
(* ------------------------------ claims --------------------------------- *)
Last(s) == s[Len(s)]
Flushed == Len(samples') > Len(samples)
IsWrite(e, d) == e.op = "write" /\ e.data = d

\* C1: the accumulator equals the sum of the counts consumed since the most
\* recent flush (or since start), and it is 0 right after every flush.
C1_AccumulatorIsSumSinceFlush ==
    /\ [](cpm = SumSeq(sinceFlush))
    /\ [][Flushed => cpm' = 0]_vars

\* a flush has reported counts and two more counts were consumed after it
C1_Witness ==
    /\ Len(samples) >= 1
    /\ Len(sinceFlush) >= 2
    /\ cpm > 256

\* C2: once a signal is handled, <HEARTBEAT0>> is written before the
\* transport is closed and is the last write before the close.
C2_DisableIsLastWriteBeforeClose ==
    /\ \A i \in 1..Len(tlog) :
         tlog[i].op = "close" =>
           /\ i = Len(tlog)
           /\ i > 1
           /\ IsWrite(tlog[i - 1], Disable)
    /\ mainPc = "deferClose" => tlog /= <<>> /\ IsWrite(Last(tlog), Disable)
    /\ mainPc = "exited" => tlog /= <<>> /\ Last(tlog).op = "close"

\* shutdown mid-interval with the channel full and the producer blocked
C2_Witness ==
    /\ mainPc = "exited"
    /\ Len(counts) = ChanCap
    /\ prodPc = "send"
    /\ sinceFlush /= <<>>

\* C3: a flush whose sink write fails still resets the accumulator in the
\* same step and leaves the main loop running; every sample reports only
\* the counts consumed since the previous flush.
C3_ResetDespiteSinkFailure ==
    /\ [][(Flushed /\ ~Last(samples').ok) => (cpm' = 0 /\ mainPc' = "loop")]_vars
    /\ [](\A i \in 1..Len(samples) : samples[i].cpm = SumSeq(samples[i].counts))

\* a failed flush of a non-zero total is followed by a later non-zero sample
C3_Witness ==
    /\ Len(samples) = 2
    /\ ~samples[1].ok
    /\ samples[1].cpm > 0
    /\ samples[2].cpm > 0
    /\ mainPc = "loop"
\* parts of C4 that hold as stated: after end-of-stream the producer has
\* closed the channel and terminated and produces nothing more; the main
\* loop leaves the loop only by a handled signal; a sample carries the
\* accumulator value reached
C4_ProducerStops ==
    /\ [](chanClosed => prodPc = "done" /\ lastRead.err = "EOF")
    /\ [][chanClosed => (produced' = produced /\ chanClosed')]_vars
C4_LoopSurvives ==
    /\ [][(chanClosed /\ mainPc = "loop" /\ mainPc' /= "loop")
            => (sigChan /= <<>> /\ mainPc' = "deferWrite")]_vars
    /\ [][(chanClosed /\ Flushed) => Last(samples').cpm = cpm]_vars

\* C4 as stated: after end-of-stream no receive changes the accumulator and
\* every buffered tick results in a flush.
C4_Original ==
    /\ C4_ProducerStops
    /\ C4_LoopSurvives
    /\ [][(chanClosed /\ ~Flushed) => cpm' = cpm]_vars
    /\ (chanClosed /\ mainPc = "loop" /\ tick > 0) ~> (tick = 0)

\* C4 (amended): after end-of-stream the producer has closed the channel and
\* terminated; the main loop keeps running; receives change the accumulator
\* only while counts buffered before the close are drained, never once the
\* closed channel is empty; every buffered tick results in a flush with the
\* accumulator value reached unless a termination signal is handled first.
C4_EndOfStream ==
    /\ C4_ProducerStops
    /\ C4_LoopSurvives
    /\ [][(chanClosed /\ counts = <<>> /\ ~Flushed) => cpm' = cpm]_vars
    /\ (chanClosed /\ mainPc = "loop" /\ tick > 0) ~> (tick = 0 \/ mainPc /= "loop")

\* a flush of a non-zero total happened after end-of-stream, the closed
\* channel is drained and the loop is still running
C4_Witness ==
    /\ chanClosed
    /\ counts = <<>>
    /\ mainPc = "loop"
    /\ nReads = 2
    /\ Len(samples) = 1
    /\ samples[1].eos
    /\ samples[1].cpm > 0

\* C5: a signal delivered to the running session leads to the graceful
\* shutdown (disable write, close, main returns), whatever the producer does.
C5_SignalLeadsToShutdown ==
    (sigChan /= <<>> /\ mainPc \in {"enable", "spawn", "loop"})
       ~> (/\ mainPc = "exited"
           /\ Len(tlog) >= 2
           /\ Last(tlog).op = "close"
           /\ IsWrite(tlog[Len(tlog) - 1], Disable))

\* the shutdown completed while the producer was blocked on the full channel
C5_Witness ==
    /\ mainPc = "exited"
    /\ prodPc = "send"
    /\ Len(counts) = ChanCap
    /\ sigChan = <<>>
    /\ nTicks = 0

\* C6: a read of zero bytes without error sends nothing on the channel and
\* leaves the accumulator alone; the producer issues the next read.
C6_ZeroLengthReadProducesNothing ==
    /\ [][(nReads' = nReads + 1 /\ lastRead'.n = 0 /\ lastRead'.err = "nil")
            => (prodPc' = "read" /\ counts' = counts /\ produced' = produced
                /\ cpm' = cpm /\ ~chanClosed')]_vars
    /\ [](prodPc = "send" => lastRead.n >= 1)
    /\ [][produced' /= produced => lastRead.n >= 1]_vars

\* the producer is back at the read after a zero-length read, with a count
\* consumed before it
C6_Witness ==
    /\ lastRead = [n |-> 0, err |-> "nil"]
    /\ nReads = 2
    /\ prodPc = "read"
    /\ cpm > 0
\* the value of ((b0<<8)|b1) & 0x3FFF by arithmetic: the low six bits of b0
\* followed by b1
MaskedFrame(b) == (b[1] % 64) * 256 + b[2]

\* C7: the EventCount sent for a 2-byte read b0 b1 is ((b0<<8)|b1) & 0x3FFF;
\* every EventCount is in 0..16383.
C7_DecodedCountIsMaskedFrame ==
    /\ [](prodPc = "send" /\ lastRead.n = 2 => val = MaskedFrame(buf))
    /\ [][(produced' /= produced /\ lastRead.n = 2)
            => (Last(produced') = MaskedFrame(buf) /\ Last(counts') = MaskedFrame(buf))]_vars
    /\ [](\A i \in 1..Len(produced) : produced[i] \in 0..16383)
    /\ [](\A i \in 1..Len(counts) : counts[i] \in 0..16383)

\* the frame 0xC1 0x02, both top bits set, was decoded to 0x0102
C7_Witness ==
    /\ prodPc = "send"
    /\ lastRead = [n |-> 2, err |-> "nil"]
    /\ buf = <<193, 2>>
    /\ val = 258

\* C8: every tick the main loop handles submits exactly one sample, for any
\* accumulator value, and a sample is submitted only for a handled tick.
C8_OneSamplePerHandledTick ==
    /\ [][tick' < tick => Len(samples') = Len(samples) + 1]_vars
    /\ [][samples' /= samples
            => (tick' = tick - 1 /\ Len(samples') = Len(samples) + 1
                /\ SubSeq(samples', 1, Len(samples)) = samples)]_vars
    /\ [](Len(samples) + tick <= nTicks)

\* a zero total was flushed, after end-of-stream, after a non-zero one
C8_Witness ==
    /\ Len(samples) = 2
    /\ samples[1].cpm > 0
    /\ samples[2].cpm = 0
    /\ samples[2].eos
    /\ tick = 0

\* C9: the sample of a flush has cpm equal to the accumulator when the tick
\* is handled and doseRate = cpm * 0.00625 = cpm / 160.  doseRate is held
\* as a multiple of 1/DoseDen, so doseRate / DoseDen = cpm / 160; both sides
\* are divided by 20 to stay within 32-bit integers.
C9_SampleIsCpmAndDoseRate ==
    [][Flushed =>
         LET smp == Last(samples') IN
           /\ smp.cpm = cpm
           /\ smp.doseRate * (160 \div 20) = smp.cpm * (DoseDen \div 20)
           /\ (smp.cpm = 0 => smp.doseRate = 0)]_vars

\* a sample with a non-zero cpm was submitted
C9_Witness ==
    /\ samples /= <<>>
    /\ Last(samples).cpm = 16383
    /\ Last(samples).doseRate = 10239375

\* C10: on the synthetic transport every EventCount is 0, the accumulator is
\* 0 in every state and every flush reports cpm = 0.
C10_SyntheticTransportReportsZero ==
    transport = "fake" =>
      /\ cpm = 0
      /\ val = 0
      /\ \A i \in 1..Len(counts) : counts[i] = 0
      /\ \A i \in 1..Len(produced) : produced[i] = 0
      /\ \A i \in 1..Len(samples) : samples[i].cpm = 0 /\ samples[i].doseRate = 0

\* a flush on the synthetic transport covered every read of the interval
C10_Witness ==
    /\ transport = "fake"
    /\ nReads = MaxFakeReads
    /\ Len(samples) = 1
    /\ Len(samples[1].counts) = MaxFakeReads
    /\ buf = <<0, 0>>

\* C11 as stated: the synthetic transport is selected exactly when the
\* device path is empty, whatever the baud rate.
C11_Original ==
    transport /= "none" => (transport = "fake" <=> sensorDevice = "")

\* C11 (amended): the synthetic transport is selected exactly when the
\* device path is empty or the baud rate is not positive; the real transport
\* is opened only when a device path is set together with a positive baud.
C11_TransportSelection ==
    /\ transport /= "none" =>
         (transport = "fake" <=> (sensorDevice = "" \/ sensorBaud <= 0))
    /\ transport = "real" => (sensorDevice /= "" /\ sensorBaud > 0)
    /\ (mainPc = "fatal" /\ sensorDevice = "") => transport = "none"

\* a device path is configured, the baud rate is 0 and fakeSerial is in use
C11_Witness ==
    /\ transport = "fake"
    /\ sensorDevice = "/dev/ttyUSB0"
    /\ sensorBaud = 0
    /\ mainPc = "loop"

\* C12 as stated: after the producer observes end-of-stream the session is
\* shut down (disable written, transport closed) without a signal.
C12_Original ==
    chanClosed ~> (/\ mainPc = "exited"
                   /\ Len(tlog) >= 2
                   /\ IsWrite(tlog[Len(tlog) - 1], Disable))

\* C12 (amended): end-of-stream does not move the session to Closing: the
\* main loop is left only by handling a termination signal, and the disable
\* command is written and the transport closed only after that.
C12_ShutdownOnlyBySignal ==
    /\ [][(mainPc = "loop" /\ mainPc' /= "loop")
            => (sigChan /= <<>> /\ sigChan' = Tail(sigChan)
                /\ mainPc' = "deferWrite")]_vars
    /\ [][tlog' /= tlog => mainPc \in {"enable", "deferWrite", "deferClose"}]_vars
    /\ []((chanClosed /\ mainPc = "loop") => Len(tlog) = 1)

\* end-of-stream was seen, the channel is drained, every tick is flushed, no
\* signal is pending: the loop is still running and nothing was written
C12_Witness ==
    /\ chanClosed
    /\ counts = <<>>
    /\ sigChan = <<>>
    /\ tick = 0
    /\ nTicks = MaxTicks
    /\ mainPc = "loop"
    /\ Len(tlog) = 1

RECURSIVE SumCpm(_)
SumCpm(s) == IF s = <<>> THEN 0 ELSE Head(s).cpm + SumCpm(Tail(s))

\* C13 as stated: every produced count is consumed exactly once, also in an
\* execution that ends by a termination signal.
C13_Original ==
    mainPc = "exited" => consumed = produced

\* C13 (amended): the counts the main loop has consumed are a prefix of the
\* counts produced, in the order produced, each consumed once and added to
\* the accumulator; the produced counts not yet consumed are exactly the
\* ones buffered in the channel, and those still buffered when a termination
\* signal is handled are never consumed.
C13_ConsumedIsPrefixOfProduced ==
    /\ [](produced = consumed \o counts)
    /\ [](SumSeq(consumed) = cpm + SumCpm(samples))
    /\ [][consumed' /= consumed
            => (/\ counts /= <<>>
                /\ consumed' = Append(consumed, Head(counts))
                /\ counts' = Tail(counts)
                /\ cpm' = cpm + Head(counts))]_vars
    /\ [][mainPc /= "loop" => consumed' = consumed]_vars

\* two different counts were produced and both were consumed, in the order
\* produced
C13_Witness ==
    /\ Len(consumed) = 2
    /\ consumed[1] /= consumed[2]
    /\ consumed = produced
    /\ mainPc = "loop"

\* C14: the channel never holds more than its capacity; a producer blocked
\* on the full channel issues no read and drops nothing until the main loop
\* receives, and it never keeps the main loop from a count, a tick or a
\* signal.
C14_BoundedChannelBackpressure ==
    /\ [](Len(counts) <= ChanCap)
    /\ [][(prodPc = "send" /\ Len(counts) = ChanCap)
            => (/\ nReads' = nReads
                /\ produced' = produced
                /\ val' = val
                /\ prodPc' = "send"
                /\ (counts' /= counts => (counts' = Tail(counts)
                                           /\ Len(consumed') = Len(consumed) + 1)))]_vars
    /\ [][(prodPc = "send" /\ prodPc' /= "send")
            => (/\ Len(counts) < ChanCap
                /\ counts' = Append(counts, val)
                /\ produced' = Append(produced, val))]_vars
    /\ []((prodPc = "send" /\ Len(counts) = ChanCap /\ mainPc = "loop")
            => (/\ ENABLED RecvCount
                /\ (tick > 0 => ENABLED Flush)
                /\ (sigChan /= <<>> => ENABLED HandleSignal)))

\* the channel is full, the producer is blocked on the send, and a tick and
\* a signal are pending for the main loop
C14_Witness ==
    /\ Len(counts) = ChanCap
    /\ prodPc = "send"
    /\ mainPc = "loop"
    /\ tick > 0
    /\ sigChan /= <<>>
    /\ Len(consumed) >= 1

\* C15: the producer and the main loop start only after the transport was
\* opened and the enable command write succeeded; a failed enable write
\* does not lead to HeartbeatEnabled.
C15_EnabledOnlyAfterSuccessfulWrite ==
    (mainPc = "loop" \/ prodPc /= "idle") =>
      /\ transport /= "none"
      /\ tlog /= <<>>
      /\ IsWrite(tlog[1], Enable)
      /\ tlog[1].ok

\* C16: <HEARTBEAT1>> is written exactly once, right after the transport is
\* opened: it is the first operation on the transport, before every read of
\* the producer and every other write.
C16_EnableWrittenOnceFirst ==
    /\ [](tlog /= <<>> => IsWrite(tlog[1], Enable))
    /\ [](\A i \in 2..Len(tlog) : ~IsWrite(tlog[i], Enable))
    /\ [](mainPc \in {"spawn", "loop", "deferWrite", "deferClose", "exited"}
            => tlog /= <<>>)
    /\ []((nReads > 0 \/ prodPc /= "idle") => tlog /= <<>>)
    /\ [][nReads' /= nReads => (tlog /= <<>> /\ IsWrite(tlog[1], Enable))]_vars
    /\ [][(mainPc = "open" /\ transport' /= "none")
            => (mainPc' = "enable" /\ tlog' = <<>> /\ nReads' = 0)]_vars

\* the session ran and was shut down: reads happened, and the log holds the
\* enable write, the disable write and the close
C16_Witness ==
    /\ mainPc = "exited"
    /\ Len(tlog) = 3
    /\ nReads >= 2
    /\ transport = "real"

\* C17: a read that returns an error other than end-of-stream produces no
\* EventCount, even with bytes returned, leaves the channel open and the
\* accumulator unchanged and is followed by another read; the producer
\* terminates only on end-of-stream.
C17_ReadErrorRetries ==
    /\ [][(nReads' = nReads + 1 /\ lastRead'.err = "err")
            => (/\ prodPc' = "read"
                /\ produced' = produced
                /\ counts' = counts
                /\ cpm' = cpm
                /\ ~chanClosed')]_vars
    /\ [](prodPc = "send" => lastRead.err = "nil")
    /\ []((prodPc = "done" \/ chanClosed) => lastRead.err = "EOF")
    /\ [][(prodPc = "read" /\ prodPc' = "done") => lastRead'.err = "EOF"]_vars

\* the producer is back at the read after an error that came with two bytes
C17_Witness ==
    /\ lastRead = [n |-> 2, err |-> "err"]
    /\ prodPc = "read"
    /\ nReads = 2
    /\ produced /= <<>>
    /\ ~chanClosed

ClosesIn(log) == {i \in 1..Len(log) : log[i].op = "close"}

\* C18: a failed disable write on the shutdown path is not fatal: the
\* transport is still closed, exactly once, after the write attempt, the
\* session reaches Closed, and a session that is Closing or Closed never
\* goes back to Idle or HeartbeatEnabled.
C18_ShutdownIsBestEffortAndFinal ==
    /\ (mainPc = "deferWrite") ~> (mainPc = "exited")
    /\ [](mainPc = "exited"
            => (/\ Cardinality(ClosesIn(tlog)) = 1
                /\ Len(tlog) >= 2
                /\ Last(tlog).op = "close"
                /\ IsWrite(tlog[Len(tlog) - 1], Disable)))
    /\ [](Cardinality(ClosesIn(tlog)) <= 1)
    /\ [][mainPc = "deferWrite" => mainPc' \in {"deferWrite", "deferClose"}]_vars
    /\ [][mainPc = "deferClose" => mainPc' \in {"deferClose", "exited"}]_vars
    /\ [][mainPc = "exited" => (mainPc' = "exited" /\ tlog' = tlog)]_vars
    /\ [][(mainPc \in {"deferWrite", "deferClose", "exited"})
            => (/\ transport' = transport
                /\ \A i \in 1..Len(tlog') :
                     i > Len(tlog) => ~IsWrite(tlog'[i], Enable))]_vars

\* the session is Closed after a disable write that failed
C18_Witness ==
    /\ mainPc = "exited"
    /\ Len(tlog) = 3
    /\ IsWrite(tlog[2], Disable)
    /\ ~tlog[2].ok
    /\ tlog[3].op = "close"

\* C19: samples are submitted only when a tick is handled; handling a
\* termination signal flushes nothing, so the accumulator value at shutdown
\* and the counts still buffered in the channel are never reported.
C19_NoFlushAtShutdown ==
    /\ [][samples' /= samples
            => (mainPc = "loop" /\ mainPc' = "loop" /\ tick > 0)]_vars
    /\ [][(mainPc = "loop" /\ mainPc' /= "loop")
            => (/\ samples' = samples
                /\ cpm' = cpm
                /\ counts' = counts
                /\ consumed' = consumed)]_vars
    /\ [][(mainPc \in {"deferWrite", "deferClose", "exited"})
            => (samples' = samples /\ cpm' = cpm /\ consumed' = consumed)]_vars
    /\ [](SumSeq(produced) = SumCpm(samples) + cpm + SumSeq(counts))

\* the program exited with a non-zero accumulator and a count in the
\* channel, and no sample was ever submitted
C19_Witness ==
    /\ mainPc = "exited"
    /\ cpm > 0
    /\ counts /= <<>>
    /\ Head(counts) > 0
    /\ samples = <<>>

\* C20: a read of n >= 1 bytes without error sends exactly one EventCount;
\* a single byte b0 is forwarded as (b0<<8) & 0x3FFF, the second byte of the
\* fresh buffer being 0, with no further read to complete the frame.
C20_PartialReadIsForwarded ==
    /\ [][(nReads' = nReads + 1 /\ lastRead'.err = "nil" /\ lastRead'.n >= 1)
            => (prodPc' = "send" /\ val' = MaskedFrame(buf'))]_vars
    /\ []((prodPc = "send" /\ lastRead.n = 1)
            => (buf[2] = 0 /\ val = (buf[1] % 64) * 256))
    /\ [][prodPc = "send"
            => (/\ nReads' = nReads
                /\ \/ (prodPc' = "send" /\ produced' = produced /\ val' = val)
                   \/ (/\ prodPc' = "read"
                       /\ produced' = Append(produced, val)
                       /\ counts' = Append(counts, val)))]_vars

\* the single byte 0xC1 was read and awaits the send as 0x0100
C20_Witness ==
    /\ prodPc = "send"
    /\ lastRead = [n |-> 1, err |-> "nil"]
    /\ buf = <<193, 0>>
    /\ val = 256
====
